---- MODULE Spec2Model ----
(***************************************************************************)
(* EnhancedSemanticMemory (src/tinytroupe/enhanced_memory.py): the         *)
(* SQLite-backed memory store of one agent, its store / clear operations   *)
(* and the consolidation run, statement by statement (Spec), and the store *)
(* as seen between runs: retrieve_relevant, failing store() calls, a       *)
(* restart of the process (SpecQuery).                                     *)
(*                                                                         *)
(* db is the COMMITTED content of the memories table: what any new         *)
(* connection (and a restarted process) reads.  pending is the set of ids  *)
(* whose "UPDATE ... SET consolidated = 1" has been executed on the        *)
(* consolidation run's own connection but not yet committed; while it is   *)
(* non-empty that connection holds SQLite's write lock.                    *)
(***************************************************************************)
EXTENDS Integers, Sequences, FiniteSets, TLC

VARIABLES db, nextId, now, pc, cutoff_time, similarity_threshold, memories,
          consolidated_groups, gi, fj, pending, failedStores, dbBefore, outcome,
          results, call,
          messages, episodic_memories, semantic_memories, ret,
          current_time, scheduled_events, recurring_events, target_time, epc,
          event, last_start, in_order

\* the EnhancedSemanticMemory of one agent and its caller
memVars == <<db, nextId, now, pc, cutoff_time, similarity_threshold, memories,
             consolidated_groups, gi, fj, pending, failedStores, dbBefore, outcome,
             results, call>>
\* a ChatInterface and its EnhancedMemorySystem
chatVars == <<messages, episodic_memories, semantic_memories, ret>>
\* a TimeAwareEnvironment
envVars == <<current_time, scheduled_events, recurring_events, target_time, epc,
             event, last_start, in_order>>

vars == <<memVars, chatVars, envVars>>

(***************************************************************************)
(* db                   the memories table, in id order (lines 91-102)     *)
(* nextId               the next AUTOINCREMENT id (line 93); ids are not   *)
(*                      reused after clear()                               *)
(* now                  the clock read by datetime.now(), in ticks         *)
(* pc                   where consolidate_memories stands: "idle" (no run),*)
(*                      "store" (before self.store of group gi), "flag"    *)
(*                      (before the UPDATE of member fj of group gi),      *)
(*                      "commit" (before conn.commit())                    *)
(* cutoff_time, similarity_threshold, memories, consolidated_groups        *)
(*                      the locals of the run (lines 195, 187, 209, 217)   *)
(* pending              ids updated on the run's connection, uncommitted   *)
(* failedStores         the groups whose self.store() raised               *)
(* dbBefore             the table as it was when the run started           *)
(* outcome              how the last call ended                            *)
(* results              what the last retrieve_relevant call returned      *)
(* call                 the arguments of that call                         *)
(* messages             ChatInterface.messages (discussion.py line 32)     *)
(* episodic_memories, semantic_memories                                    *)
(*                      the lists of its EnhancedMemorySystem (memory.py   *)
(*                      lines 20-21)                                       *)
(* ret                  how the last call on the chat or its memory system *)
(*                      ended and what it returned                         *)
(* current_time, scheduled_events, recurring_events                        *)
(*                      the fields of a TimeAwareEnvironment               *)
(*                      (enhanced_environment.py lines 101-104)            *)
(* target_time          the local of advance_time (line 119)               *)
(* epc                  where advance_time stands: "loop" (at the test of  *)
(*                      the while loop, line 122), "process" (an event was *)
(*                      popped, line 124), "returned" (it has returned and *)
(*                      nothing was called since), "idle" (otherwise)      *)
(* event                the local of advance_time (line 124)               *)
(* last_start, in_order the start_time of the event the running (or last)  *)
(*                      advance_time call processed last (NoStart when it  *)
(*                      has processed none), and whether the call has      *)
(*                      processed its events in non-decreasing start_time  *)
(*                      order so far                                       *)
(***************************************************************************)

(***************************************************************************)
(* Bounds of the exploration.                                              *)
(***************************************************************************)
\* the table's id sequence runs up to MaxId: the caller's own store() calls
\* stop one id short of it, and no consolidation run starts beyond it
MaxId == 6
\* a chat holds up to MaxMessages messages
MaxMessages == 3
\* the environment's clock stays within 0..MaxClock
MaxClock == 3
\* the caller schedules events while fewer than MaxEvents are scheduled
MaxEvents == 2
\* the clock runs from 0 to MaxTime ticks
MaxTime == 2
\* clock ticks per second (timestamps carry sub-second precision)
TicksPerSec == 2

(***************************************************************************)
(* Inputs.                                                                 *)
(***************************************************************************)
\* words a stored text is made of; 0 stands for the "\n" that joins contents
Vocabulary == {1, 2, 3}
Newline == <<0>>
\* the texts the caller stores: one word each
Contents == {<<w>> : w \in Vocabulary}
MemoryTypes == {"episodic", "semantic"}
\* the <<content, memory_type>> pairs the caller stores
StoreInputs ==
    {<<c, "episodic">> : c \in Contents} \cup {<<<<1>>, "semantic">>}
\* similarity_threshold as <<numerator, denominator>>: 0.7 and the default 0.8
SimilarityThresholds == {<<7, 10>>, <<8, 10>>}
\* time_threshold in ticks: 0 s and 1 s
TimeThresholds == {0, TicksPerSec}

(***************************************************************************)
(* The embedding provider: a deterministic function of the text.  A text   *)
(* is embedded as the sum of its words' vectors; "\n" contributes nothing. *)
(***************************************************************************)
WordVec(w) ==
    CASE w = 1 -> <<1, 0>>
      [] w = 2 -> <<0, 1>>
      [] w = 3 -> <<1, 1>>
      [] OTHER -> <<0, 0>>

RECURSIVE Encode(_)
Encode(content) ==
    IF content = <<>> THEN <<0, 0>>
    ELSE LET v == WordVec(Head(content))
             r == Encode(Tail(content))
         IN  <<v[1] + r[1], v[2] + r[2]>>

Dot(a, b) == a[1] * b[1] + a[2] * b[2]

\* cosine_similarity([a], [b])[0][0] >= num/den, in exact arithmetic;
\* a zero-norm vector has similarity 0 with everything
CosineSimilarityGE(a, b, th) ==
    LET num == th[1]
        den == th[2]
        L   == den * Dot(a, b)
        N   == Dot(a, a) * Dot(b, b)
    IN  IF N = 0 THEN num <= 0
        ELSE IF num >= 0 THEN L >= 0 /\ L * L >= num * num * N
        ELSE L >= 0 \/ L * L <= num * num * N

(***************************************************************************)
(* Rows of the memories table.                                             *)
(***************************************************************************)
NoMetadata == [consolidated_from |-> <<>>]

MemoryChunk(id, content, source, timestamp, memory_type, metadata) ==
    [id           |-> id,
     content      |-> content,
     source       |-> source,
     timestamp    |-> timestamp,
     metadata     |-> metadata,
     embedding    |-> Encode(content),
     type         |-> memory_type,
     consolidated |-> 0]

Range(s) == {s[i] : i \in 1..Len(s)}
Ids(rows) == {rows[i].id : i \in 1..Len(rows)}
Row(d, id) == CHOOSE r \in Range(d) : r.id = id

\* SQLite's datetime(): the timestamp truncated to whole seconds
SqlDatetime(t) == t \div TicksPerSec

(***************************************************************************)
(* consolidate_memories: selection and grouping (pure parts).              *)
(***************************************************************************)
\* faulty variant of Eligible: the "consolidated = 0" condition is missing
EligibleWhateverFlag(r, cutoff) ==
    /\ r.type = "episodic"
    /\ SqlDatetime(r.timestamp) < SqlDatetime(cutoff)

\* WHERE type = 'episodic' AND consolidated = 0
\*   AND datetime(timestamp) < datetime(cutoff)
Eligible(r, cutoff) ==
    /\ r.type = "episodic"
    /\ r.consolidated = 0
    /\ SqlDatetime(r.timestamp) < SqlDatetime(cutoff)

\* the rows the SELECT returns, in table (id) order
SelectEligible(d, cutoff) == SelectSeq(d, LAMBDA r : Eligible(r, cutoff))

\* faulty variant of IsMultiple: a group of one is kept
IsNonEmpty(group) == Len(group) > 0

\* "if len(group) > 1"
IsMultiple(group) == Len(group) > 1

\* faulty variant of ScanSimilar: the "if j in used_indices: continue" is
\* missing, so a memory joins every seed it is similar to
RECURSIVE ScanIgnoringUsed(_, _, _, _, _)
ScanIgnoringUsed(from, i, used, mems, th) ==
    IF from > Len(mems) THEN <<>>
    ELSE (IF CosineSimilarityGE(mems[i].embedding, mems[from].embedding, th)
          THEN <<from>> ELSE <<>>)
         \o ScanIgnoringUsed(from + 1, i, used, mems, th)

\* the inner loop: the indices j >= from, not yet used, whose embedding is
\* similar to the seed's (memories[i])
RECURSIVE ScanSimilar(_, _, _, _, _)
ScanSimilar(from, i, used, mems, th) ==
    IF from > Len(mems) THEN <<>>
    ELSE (IF from \notin used
             /\ CosineSimilarityGE(mems[i].embedding, mems[from].embedding, th)
          THEN <<from>> ELSE <<>>)
         \o ScanSimilar(from + 1, i, used, mems, th)

\* the outer loop: the groups (as sequences of indices into mems) that have
\* more than one member, seeds taken in list order
RECURSIVE GroupSimilar(_, _, _, _)
GroupSimilar(i, used, mems, th) ==
    IF i > Len(mems) THEN <<>>
    ELSE IF i \in used THEN GroupSimilar(i + 1, used, mems, th)
    ELSE LET group == <<i>> \o ScanSimilar(i + 1, i, used \cup {i}, mems, th)
         IN  (IF IsMultiple(group) THEN <<group>> ELSE <<>>)
             \o GroupSimilar(i + 1, used \cup Range(group), mems, th)

\* the (id, content) pairs of the groups
GroupsOf(mems, th) ==
    LET gs == GroupSimilar(1, {}, mems, th)
    IN  [k \in 1..Len(gs) |->
            [m \in 1..Len(gs[k]) |->
                [id |-> mems[gs[k][m]].id, content |-> mems[gs[k][m]].content]]]

\* faulty variant of GroupIds: only the seed's id is recorded
SeedIdOnly(group) == <<group[1].id>>

\* [id_ for id_, _ in group]
GroupIds(group) == [m \in 1..Len(group) |-> group[m].id]

\* faulty variant of JoinContents: each content is put in front of the text
\* built so far, so the seed's content comes last
RECURSIVE JoinPrepending(_)
JoinPrepending(group) ==
    IF Len(group) = 0 THEN <<>>
    ELSE IF Len(group) = 1 THEN group[1].content
    ELSE JoinPrepending(Tail(group)) \o Newline \o group[1].content
\* "\n".join(content for _, content in group)
RECURSIVE JoinContents(_)
JoinContents(group) ==
    IF Len(group) = 0 THEN <<>>
    ELSE IF Len(group) = 1 THEN group[1].content
    ELSE group[1].content \o Newline \o JoinContents(Tail(group))

\* faulty variant of UpdateConsolidated: an UPDATE without WHERE that sets
\* consolidated = (id IN group)
SetFlagToMembership(r, ids) ==
    [r EXCEPT !.consolidated = IF r.id \in ids THEN 1 ELSE 0]

\* faulty variant of UpdateConsolidated: the WHERE clause matches no row
LeaveUnflagged(r, ids) == r

\* "UPDATE memories SET consolidated = 1 WHERE id = ?" applied to one row
UpdateConsolidated(r, ids) ==
    IF r.id \in ids THEN [r EXCEPT !.consolidated = 1] ELSE r

\* faulty variant of CommitPending: the sources of a group are deleted
\* ("DELETE FROM memories WHERE id = ?") instead of flagged
CommitDeletingSources(d, ids) == SelectSeq(d, LAMBDA r : r.id \notin ids)

\* conn.commit(): the run's pending flag updates become part of the table
CommitPending(d, ids) == [i \in 1..Len(d) |-> UpdateConsolidated(d[i], ids)]

\* conn.rollback(), and equally a process death: pending updates are dropped
Rollback(d, ids) == d

\* faulty variant of Propagates: a handler around self.store() that logs and
\* goes on unless the exception is a sqlite3.Error
PropagatesDbErrorsOnly(e) == e \in {"sqlite3.Error", "database is locked"}

\* an exception raised in the loop body leaves consolidate_memories: there is
\* no handler inside the "for group in consolidated_groups" loop
Propagates(e) == TRUE

(***************************************************************************)
(* State.                                                                  *)
(***************************************************************************)
\* how the last call ended: the operation, the exception it raised ("none" when
\* it returned; "crash" when the process died) and the step that raised it
NoOutcome == [op |-> "none", raised |-> "none", at |-> "none"]
Returned(op) == [op |-> op, raised |-> "none", at |-> "none"]
Raised(op, e, at) == [op |-> op, raised |-> e, at |-> at]
\* how a call on the chat or its memory system ended: its argument and the
\* value it returned
NoReturn == [op |-> "none", raised |-> "none", arg |-> <<>>, value |-> <<>>]
ChatReturned(op, arg, value) == [op |-> op, raised |-> "none", arg |-> arg, value |-> value]
ChatRaised(op, e) == [op |-> op, raised |-> e, arg |-> <<>>, value |-> <<>>]
\* no event processed yet: below every start_time
NoStart == 0 - 1
\* advance_time holds no popped event
NoEvent == [name |-> "", start_time |-> NoStart]
\* no retrieve_relevant call has been made since the table last changed
NoCall == [query |-> <<>>, top_k |-> 0, memory_type |-> "no call"]

\* The object is constructed on the database file of an earlier session
\* (CREATE TABLE IF NOT EXISTS keeps what is there): two episodic memories
\* with the same text, stored one second before the clock starts.
InitialTable ==
    <<MemoryChunk(1, <<1>>, "conversation", 0 - TicksPerSec, "episodic", NoMetadata),
      MemoryChunk(2, <<1>>, "conversation", 0 - TicksPerSec, "episodic", NoMetadata)>>

Init ==
    /\ db = InitialTable
    /\ nextId = Len(InitialTable) + 1
    /\ now = 0
    /\ pc = "idle"
    /\ cutoff_time = 0
    /\ similarity_threshold = <<0, 1>>
    /\ memories = <<>>
    /\ consolidated_groups = <<>>
    /\ gi = 0
    /\ fj = 0
    /\ pending = {}
    /\ failedStores = {}
    /\ dbBefore = <<>>
    /\ outcome = NoOutcome
    /\ results = <<>>
    /\ call = NoCall
    /\ messages = <<>>
    /\ episodic_memories = <<>>
    /\ semantic_memories = <<>>
    /\ ret = NoReturn
    /\ current_time = 0
    /\ scheduled_events = <<>>
    /\ recurring_events = {}
    /\ target_time = 0
    /\ epc = "idle"
    /\ event = NoEvent
    /\ last_start = NoStart
    /\ in_order = TRUE

\* a call on the agent's memory touches neither the chat nor the environment
Elsewhere == UNCHANGED <<chatVars, envVars>>

\* the result of an earlier retrieve_relevant call is dropped when the caller
\* moves on to an operation that writes
ForgetCall ==
    /\ results' = <<>>
    /\ call' = NoCall
    /\ Elsewhere

\* what is left of the previous consolidation run is forgotten when the
\* caller moves on to another operation
ForgetRun ==
    /\ ForgetCall
    /\ cutoff_time' = 0
    /\ similarity_threshold' = <<0, 1>>
    /\ memories' = <<>>
    /\ consolidated_groups' = <<>>
    /\ gi' = 0
    /\ fj' = 0
    /\ failedStores' = {}
    /\ dbBefore' = <<>>

KeepRun ==
    /\ UNCHANGED <<cutoff_time, similarity_threshold, memories,
                   consolidated_groups, dbBefore, results, call>>
    /\ Elsewhere

(***************************************************************************)
(* The clock.                                                              *)
(***************************************************************************)
Tick ==
    /\ pc = "idle"
    /\ now < MaxTime
    /\ now' = now + 1
    /\ outcome' = NoOutcome
    /\ ForgetRun
    /\ UNCHANGED <<db, nextId, pc, pending>>

(***************************************************************************)
(* store(content, source, memory_type, metadata)                           *)
(***************************************************************************)
\* the INSERT and its commit on store()'s own connection
InsertRow(d, content, source, memory_type, metadata) ==
    Append(d, MemoryChunk(nextId, content, source, now, memory_type, metadata))

Store(content, memory_type) ==
    /\ pc = "idle"
    /\ nextId < MaxId
    /\ db' = InsertRow(db, content, "conversation", memory_type, NoMetadata)
    /\ nextId' = nextId + 1
    /\ outcome' = Returned("store")
    /\ ForgetRun
    /\ UNCHANGED <<now, pc, pending>>

(***************************************************************************)
(* clear()                                                                 *)
(***************************************************************************)
\* faulty variant of DeleteAll: "DELETE FROM memories WHERE consolidated = 1"
DeleteConsolidated(d) == SelectSeq(d, LAMBDA r : r.consolidated = 0)

\* "DELETE FROM memories"
DeleteAll(d) == <<>>

Clear ==
    /\ pc = "idle"
    /\ db' = DeleteAll(db)
    /\ outcome' = Returned("clear")
    /\ ForgetRun
    /\ UNCHANGED <<nextId, now, pc, pending>>

(***************************************************************************)
(* retrieve_relevant(query, top_k, memory_type)                            *)
(***************************************************************************)
\* the query texts
Queries == {<<1>>, <<3>>}
\* top_k: negative, zero, fewer than the table holds, and the default
TopKs == {-1, 0, 1, 2, 5}
\* memory_type: None (written "None"), the empty string, the two types in
\* use and a type no record has
TypeFilters == {"None", "", "episodic", "semantic", "procedural"}

\* "if memory_type:" is false for None and for the empty string
IsTruthy(memory_type) == memory_type \notin {"None", ""}

\* faulty variant of SelectByType: the WHERE clause is missing
SelectUnfiltered(d, memory_type) == d

\* faulty variant of SelectByType: the SELECTs leave out the rows that a
\* consolidation has flagged ("AND consolidated = 0")
SelectUnconsolidated(d, memory_type) ==
    IF IsTruthy(memory_type)
    THEN SelectSeq(d, LAMBDA r : r.type = memory_type /\ r.consolidated = 0)
    ELSE SelectSeq(d, LAMBDA r : r.consolidated = 0)

\* the rows the SELECT returns, in table order: "WHERE type = ?" when a
\* memory_type is given, all rows otherwise
SelectByType(d, memory_type) ==
    IF IsTruthy(memory_type)
    THEN SelectSeq(d, LAMBDA r : r.type = memory_type)
    ELSE d

\* embedding bytes that pickle.loads cannot decode
Undecodable(r) == r.embedding = <<>>

\* cosine_similarity([query_embedding], [embedding])[0][0], kept exactly as
\* the fraction <<s * d * d, |q|^2 * |e|^2>> (d the dot product, s its sign):
\* the signed square of the cosine, which orders as the cosine does; a
\* zero-norm vector has similarity 0
Similarity(q, e) ==
    LET d == Dot(q, e)
        n == Dot(q, q) * Dot(e, e)
    IN  IF n = 0 THEN <<0, 1>>
        ELSE <<(IF d >= 0 THEN d * d ELSE 0 - d * d), n>>
SimGT(x, y) == x[1] * y[2] > y[1] * x[2]
SimEQ(x, y) == x[1] * y[2] = y[1] * x[2]

\* the dict appended for one row; id is not part of the dict, it records the
\* row the dict was built from
MemoryDict(r, query_embedding) ==
    [id         |-> r.id,
     content    |-> r.content,
     source     |-> r.source,
     timestamp  |-> r.timestamp,
     metadata   |-> r.metadata,
     similarity |-> Similarity(query_embedding, r.embedding)]

\* the list built by the loop over the cursor
Candidates(d, query, memory_type) ==
    LET rows == SelectByType(d, memory_type)
    IN  [i \in 1..Len(rows) |-> MemoryDict(rows[i], Encode(query))]

\* faulty variant of SortBySimilarity: sorted ascending and then reversed,
\* which turns the order of equal keys around
SortAscendingReversed(ms) ==
    LET n == Len(ms)
        rank(i) == 1 + Cardinality({j \in 1..n :
                        \/ SimGT(ms[j].similarity, ms[i].similarity)
                        \/ SimEQ(ms[j].similarity, ms[i].similarity) /\ j > i})
    IN  [p \in 1..n |-> ms[CHOOSE i \in 1..n : rank(i) = p]]

\* memories.sort(key=lambda x: x['similarity'], reverse=True): list.sort is
\* stable, also with reverse=True, so an element comes after the elements
\* with a greater key and after the equal ones that stood before it
SortBySimilarity(ms) ==
    LET n == Len(ms)
        rank(i) == 1 + Cardinality({j \in 1..n :
                        \/ SimGT(ms[j].similarity, ms[i].similarity)
                        \/ SimEQ(ms[j].similarity, ms[i].similarity) /\ j < i})
    IN  [p \in 1..n |-> ms[CHOOSE i \in 1..n : rank(i) = p]]

\* ms[:k], Python's slice: a negative k counts from the end of the list
Slice(ms, k) ==
    IF k >= 0
    THEN SubSeq(ms, 1, IF k < Len(ms) THEN k ELSE Len(ms))
    ELSE SubSeq(ms, 1, IF Len(ms) + k > 0 THEN Len(ms) + k ELSE 0)

\* what the call returns when every selected row decodes
RetrieveRelevant(d, query, top_k, memory_type) ==
    Slice(SortBySimilarity(Candidates(d, query, memory_type)), top_k)

\* the call: pickle.loads stands unguarded in the loop over the cursor, so a
\* selected row that does not decode ends the call with the exception.  The
\* call writes nothing, so a second call in a row returns what it would have
\* returned as the first: calls are explored from the states that remember
\* no earlier call.
Retrieve(query, top_k, memory_type) ==
    /\ pc = "idle"
    /\ call = NoCall
    /\ call' = [query |-> query, top_k |-> top_k, memory_type |-> memory_type]
    /\ IF \E r \in Range(SelectByType(db, memory_type)) : Undecodable(r)
       THEN /\ results' = <<>>
            /\ outcome' = Raised("retrieve_relevant", "UnpicklingError", "pickle.loads")
       ELSE /\ results' = RetrieveRelevant(db, query, top_k, memory_type)
            /\ outcome' = Returned("retrieve_relevant")
    /\ UNCHANGED <<db, nextId, now, pc, cutoff_time, similarity_threshold,
                   memories, consolidated_groups, gi, fj, pending,
                   failedStores, dbBefore>>
    /\ Elsewhere

(***************************************************************************)
(* consolidate_memories(time_threshold, similarity_threshold)              *)
(***************************************************************************)
\* the SELECT and the grouping; returns at once when nothing is eligible or
\* no group has more than one member
ConsolidateBegin(time_threshold, th) ==
    /\ pc = "idle"
    /\ nextId <= MaxId
    /\ cutoff_time' = now - time_threshold
    /\ similarity_threshold' = th
    /\ dbBefore' = db
    /\ LET mems   == SelectEligible(db, now - time_threshold)
           groups == GroupsOf(mems, th)
       IN  /\ memories' = mems
           /\ consolidated_groups' = groups
           /\ IF groups = <<>>
              THEN /\ pc' = "idle"
                   /\ gi' = 0
                   /\ outcome' = Returned("consolidate_memories")
              ELSE /\ pc' = "store"
                   /\ gi' = 1
                   /\ outcome' = NoOutcome
    /\ fj' = 0
    /\ failedStores' = {}
    /\ ForgetCall
    /\ UNCHANGED <<db, nextId, now, pending>>

\* the run ends with exception e: "except sqlite3.Error: conn.rollback();
\* raise", or for any other exception the rollback of "with conn"
Abort(e) ==
    /\ db' = Rollback(db, pending)
    /\ pending' = {}
    /\ pc' = "idle"
    /\ fj' = 0
    /\ outcome' = Raised("consolidate_memories", e, pc)
    /\ KeepRun
    /\ UNCHANGED <<nextId, now, gi>>

\* self.store(combined_content, "memory_consolidation", "semantic", ...) of
\* group gi, on a connection of its own: it commits at once, but cannot
\* write while the run's connection holds uncommitted updates
StoreGroup ==
    /\ pc = "store"
    /\ pending = {}
    /\ LET group == consolidated_groups[gi]
       IN  db' = InsertRow(db, JoinContents(group), "memory_consolidation",
                           "semantic", [consolidated_from |-> GroupIds(group)])
    /\ nextId' = nextId + 1
    /\ pc' = "flag"
    /\ fj' = 1
    /\ KeepRun
    /\ UNCHANGED <<now, gi, pending, failedStores, outcome>>

\* store() of group gi raises e and writes nothing; the exception ends the run
StoreGroupRaises(e) ==
    /\ pc = "store"
    /\ failedStores' = failedStores \cup {gi}
    /\ IF Propagates(e)
       THEN Abort(e)
       ELSE /\ pc' = "flag"
            /\ fj' = 1
            /\ KeepRun
            /\ UNCHANGED <<db, nextId, now, gi, pending, outcome>>

\* the INSERT waits for the write lock the run's own connection holds, until
\* the connection timeout: sqlite3.OperationalError
StoreGroupLocked ==
    /\ pending # {}
    /\ StoreGroupRaises("database is locked")

\* the embedding provider raises inside store()
StoreGroupProviderError ==
    /\ pc = "store"
    /\ StoreGroupRaises("ProviderError")

\* the INSERT of store() fails for a reason of its own (disk, corruption)
StoreGroupDbError ==
    /\ pending = {}
    /\ StoreGroupRaises("sqlite3.Error")

\* one "UPDATE memories SET consolidated = 1 WHERE id = ?" on the run's
\* connection, not committed
FlagMember ==
    /\ pc = "flag"
    /\ LET group == consolidated_groups[gi]
       IN  /\ pending' = pending \cup {group[fj].id}
           /\ IF fj < Len(group)
              THEN /\ fj' = fj + 1
                   /\ UNCHANGED <<pc, gi>>
              ELSE /\ fj' = 0
                   /\ IF gi < Len(consolidated_groups)
                      THEN pc' = "store" /\ gi' = gi + 1
                      ELSE pc' = "commit" /\ UNCHANGED gi
    /\ KeepRun
    /\ UNCHANGED <<db, nextId, now, failedStores, outcome>>

FlagMemberDbError ==
    /\ pc = "flag"
    /\ Abort("sqlite3.Error")
    /\ UNCHANGED failedStores

\* conn.commit() after the loop
Commit ==
    /\ pc = "commit"
    /\ db' = CommitPending(db, pending)
    /\ pending' = {}
    /\ pc' = "idle"
    /\ outcome' = Returned("consolidate_memories")
    /\ KeepRun
    /\ UNCHANGED <<nextId, now, gi, fj, failedStores>>

CommitDbError ==
    /\ pc = "commit"
    /\ Abort("sqlite3.Error")
    /\ UNCHANGED failedStores

\* the process dies between two statements of the run: its connection is gone
\* and SQLite discards the uncommitted updates
Crash ==
    /\ pc # "idle"
    /\ Abort("crash")
    /\ UNCHANGED failedStores

Next ==
    \/ Tick
    \/ \E in \in StoreInputs : Store(in[1], in[2])
    \/ Clear
    \/ \E tt \in TimeThresholds, th \in SimilarityThresholds : ConsolidateBegin(tt, th)
    \/ StoreGroup
    \/ StoreGroupLocked
    \/ StoreGroupProviderError
    \/ StoreGroupDbError
    \/ FlagMember
    \/ FlagMemberDbError
    \/ Commit
    \/ CommitDbError
    \/ Crash

Spec == Init /\ [][Next]_vars

(***************************************************************************)
(* The store as its caller sees it between consolidation runs: store()     *)
(* with its failures, clear(), retrieve_relevant(), a restart of the       *)
(* process, and damage to a stored embedding.  The clock stands still:     *)
(* none of these operations reads a timestamp.                             *)
(***************************************************************************)
\* where store() can raise, and what it raises there
StoreFailures ==
    {<<"encode", "ProviderError">>, <<"execute", "sqlite3.Error">>,
     <<"commit", "sqlite3.Error">>}

\* faulty variant of LeaveWithBlock: the connection is in autocommit mode, so
\* the INSERT that was executed stays
LeaveCommitted(d, row, at) == IF at = "commit" THEN Append(d, row) ELSE d

\* "with self._get_connection() as conn" left by an exception: the
\* connection's __exit__ rolls the open transaction back
LeaveWithBlock(d, row, at) == d

\* store() raises e at step at: the provider fails before any connection is
\* opened, a failing INSERT or commit is rolled back
StoreRaises(content, memory_type, at, e) ==
    /\ pc = "idle"
    /\ nextId < MaxId
    /\ db' = IF at = "encode" THEN db
             ELSE LeaveWithBlock(db, MemoryChunk(nextId, content, "conversation",
                                                 now, memory_type, NoMetadata), at)
    /\ outcome' = Raised("store", e, at)
    /\ ForgetRun
    /\ UNCHANGED <<nextId, now, pc, pending>>

\* faulty variant of InitDatabase: the table is dropped and created anew
RecreateTable(d) == <<>>

\* _init_database: "CREATE TABLE IF NOT EXISTS memories" keeps the table
\* that is in the file
InitDatabase(d) == d

\* the process ends and a new EnhancedSemanticMemory is constructed with the
\* same agent name and memory_dir; the caller still holds what it retrieved
\* before
Restart ==
    /\ pc = "idle"
    /\ db' = InitDatabase(db)
    /\ outcome' = Returned("__init__")
    /\ UNCHANGED <<nextId, now, pc, cutoff_time, similarity_threshold, memories,
                   consolidated_groups, gi, fj, pending, failedStores, dbBefore,
                   results, call>>
    /\ Elsewhere

\* the embedding bytes of row id are damaged in the file (or were written by
\* another program): at most one row of the table is in that state
CorruptEmbedding(id) ==
    /\ pc = "idle"
    /\ \A r \in Range(db) : ~Undecodable(r)
    /\ id \in Ids(db)
    /\ db' = [i \in 1..Len(db) |->
                 IF db[i].id = id THEN [db[i] EXCEPT !.embedding = <<>>] ELSE db[i]]
    /\ outcome' = NoOutcome
    /\ ForgetRun
    /\ UNCHANGED <<nextId, now, pc, pending>>

QueryNext ==
    \/ \E in \in StoreInputs : Store(in[1], in[2])
    \/ \E in \in StoreInputs, f \in StoreFailures : StoreRaises(in[1], in[2], f[1], f[2])
    \/ Clear
    \/ \E q \in Queries, k \in TopKs, t \in TypeFilters : Retrieve(q, k, t)
    \/ Restart
    \/ \E id \in 1..MaxId : CorruptEmbedding(id)

SpecQuery == Init /\ [][QueryNext]_vars

(***************************************************************************)
(* The store and its consolidation runs when nothing fails from outside:   *)
(* the provider answers, the disk works, the process lives.  What remains  *)
(* of the failures is the lock a run of two or more groups sets on itself. *)
(***************************************************************************)
NoFaultNext ==
    \/ Tick
    \/ \E in \in StoreInputs : Store(in[1], in[2])
    \/ Clear
    \/ \E tt \in TimeThresholds, th \in SimilarityThresholds : ConsolidateBegin(tt, th)
    \/ StoreGroup
    \/ StoreGroupLocked
    \/ FlagMember
    \/ Commit

SpecNoFault == Init /\ [][NoFaultNext]_vars

(***************************************************************************)
(* Consolidation runs called with a similarity_threshold that is not       *)
(* positive: the code reads the parameter for the first time in the        *)
(* comparison of line 232.  The modelled embeddings have no negative       *)
(* cosine, so such a run puts all selected memories into the first seed's  *)
(* group: it has at most one group and its store() never meets the lock.   *)
(***************************************************************************)
\* similarity_threshold 0 and -0.1
NonPositiveThresholds == {<<0, 1>>, <<0 - 1, 10>>}

ThresholdNext ==
    \/ Tick
    \/ \E in \in StoreInputs : Store(in[1], in[2])
    \/ \E tt \in TimeThresholds, th \in NonPositiveThresholds : ConsolidateBegin(tt, th)
    \/ StoreGroup
    \/ FlagMember
    \/ Commit

SpecThreshold == Init /\ [][ThresholdNext]_vars

(***************************************************************************)
(* ChatInterface (src/enhanced_group_memory/src/core/discussion.py) and    *)
(* its in-memory EnhancedMemorySystem (.../core/memory.py).  The           *)
(* timestamps of messages and memories are left out: no statement of the   *)
(* modelled methods reads them but the time_range of a consolidated        *)
(* memory's context.                                                       *)
(***************************************************************************)
Senders == {"alice", "bob"}
\* search_memories' k: zero, fewer than the lists hold, and the default
Ks == {0, 1, 2, 5}

\* cosine similarity > num/den (memory.py line 64 compares with ">")
CosineSimilarityGT(a, b, th) ==
    LET num == th[1]
        den == th[2]
        L   == den * Dot(a, b)
        N   == Dot(a, a) * Dot(b, b)
    IN  IF N = 0 THEN num < 0
        ELSE IF num >= 0 THEN L >= 0 /\ L * L > num * num * N
        ELSE L >= 0 \/ L * L < num * num * N

Message(sender, content, msg_type) ==
    [sender |-> sender, content |-> content, msg_type |-> msg_type]

\* Memory(content, context) with its embedding set
Memory(content, context) ==
    [content |-> content, context |-> context, embedding |-> Encode(content)]

\* store_episodic_memory
StoreEpisodicMemory(ems, content, context) == Append(ems, Memory(content, context))

\* add_message: the message is appended first, then the memory is stored
AddMessage(sender, content) ==
    /\ Len(messages) < MaxMessages
    /\ messages' = Append(messages, Message(sender, content, "text"))
    /\ episodic_memories' =
          StoreEpisodicMemory(episodic_memories, content,
                              [sender |-> sender, type |-> "text",
                               discussion_time |-> Len(messages')])
    /\ ret' = ChatReturned("add_message", <<>>, <<>>)
    /\ UNCHANGED <<semantic_memories, memVars, envVars>>

\* add_message when self.model.encode raises in store_episodic_memory: the
\* append of line 37 has happened, nothing catches the exception
AddMessageProviderError(sender, content) ==
    /\ Len(messages) < MaxMessages
    /\ messages' = Append(messages, Message(sender, content, "text"))
    /\ ret' = ChatRaised("add_message", "ProviderError")
    /\ UNCHANGED <<episodic_memories, semantic_memories, memVars, envVars>>

\* self.episodic_memories + self.semantic_memories
AllMemories == episodic_memories \o semantic_memories

\* np.argsort(similarities): the orders of the indices that are ascending in
\* similarity; numpy's default sort is not stable, so equal similarities may
\* come in either order
Argsorts(ms, query_embedding) ==
    {o \in [1..Len(ms) -> 1..Len(ms)] :
        /\ \A p, p2 \in 1..Len(ms) : p # p2 => o[p] # o[p2]
        /\ \A p, p2 \in 1..Len(ms) :
              p < p2 => ~SimGT(Similarity(query_embedding, ms[o[p]].embedding),
                               Similarity(query_embedding, ms[o[p2]].embedding))}

\* seq[-k:], Python's slice: the last k elements for k > 0, and, -0 being 0,
\* the whole sequence for k = 0
LastK(seq, k) ==
    IF k = 0 THEN seq
    ELSE IF k > 0
         THEN SubSeq(seq, (IF Len(seq) - k > 0 THEN Len(seq) - k ELSE 0) + 1, Len(seq))
         ELSE SubSeq(seq, (IF 0 - k < Len(seq) THEN 0 - k ELSE Len(seq)) + 1, Len(seq))

\* seq[::-1]
Reverse(seq) == [p \in 1..Len(seq) |-> seq[Len(seq) + 1 - p]]

\* search_memories(query, k)
SearchMemories(query, k) ==
    /\ \E o \in Argsorts(AllMemories, Encode(query)) :
          LET top_indices == Reverse(LastK(o, k))
          IN  ret' = ChatReturned("search_memories", [query |-> query, k |-> k],
                                  [p \in 1..Len(top_indices) |->
                                      AllMemories[top_indices[p]]])
    /\ UNCHANGED <<messages, episodic_memories, semantic_memories, memVars, envVars>>

\* the elements of a set of indices in ascending order (np.where)
Ascending(S) ==
    [p \in 1..Cardinality(S) |->
        CHOOSE j \in S : Cardinality({x \in S : x < j}) = p - 1]

\* the loop of consolidate_memories over i = from..len(episodic_memories):
\* row i of the similarity matrix is compared with the threshold for every
\* index, processed or not.  A consolidated memory carries, besides the
\* fields of the code, the discussion_time of each memory it was built from
\* (sources).
RECURSIVE ConsolidateFrom(_, _, _, _, _)
ConsolidateFrom(i, processed, consolidated, ems, threshold) ==
    IF i > Len(ems) THEN [consolidated |-> consolidated, processed |-> processed]
    ELSE IF i \in processed
         THEN ConsolidateFrom(i + 1, processed, consolidated, ems, threshold)
    ELSE LET similar_indices ==
                 {j \in 1..Len(ems) :
                     CosineSimilarityGT(ems[i].embedding, ems[j].embedding, threshold)}
             similar_memories ==
                 [p \in 1..Cardinality(similar_indices) |->
                     ems[Ascending(similar_indices)[p]]]
             semantic_memory ==
                 [Memory(JoinContents(similar_memories),
                         [source_memories |-> Len(similar_memories)])
                  EXCEPT !.context = [source_memories |-> Len(similar_memories),
                                      sources |-> [p \in 1..Len(similar_memories) |->
                                          similar_memories[p].context.discussion_time]]]
         IN  IF Cardinality(similar_indices) > 1
             THEN ConsolidateFrom(i + 1, processed \cup similar_indices,
                                  Append(consolidated, semantic_memory), ems, threshold)
             ELSE ConsolidateFrom(i + 1, processed, consolidated, ems, threshold)

\* EnhancedMemorySystem.consolidate_memories(threshold)
ConsolidateMemories(threshold) ==
    /\ IF Len(episodic_memories) < 2
       THEN /\ ret' = ChatReturned("consolidate_memories", threshold, <<>>)
            /\ UNCHANGED <<episodic_memories, semantic_memories>>
       ELSE LET r == ConsolidateFrom(1, {}, <<>>, episodic_memories, threshold)
            IN  /\ semantic_memories' = semantic_memories \o r.consolidated
                /\ episodic_memories' =
                      [p \in 1..(Len(episodic_memories) - Cardinality(r.processed)) |->
                          episodic_memories[
                              Ascending((1..Len(episodic_memories)) \ r.processed)[p]]]
                /\ ret' = ChatReturned("consolidate_memories", threshold, r.consolidated)
    /\ UNCHANGED <<messages, memVars, envVars>>

ChatNext ==
    \/ \E sender \in Senders, content \in Contents : AddMessage(sender, content)
    \/ \E sender \in Senders, content \in Contents :
          AddMessageProviderError(sender, content)
    \/ \E query \in Queries, k \in Ks : SearchMemories(query, k)
    \/ \E threshold \in SimilarityThresholds : ConsolidateMemories(threshold)

SpecChat == Init /\ [][ChatNext]_vars

(***************************************************************************)
(* TimeAwareEnvironment (src/tinytroupe/enhanced_environment.py): the      *)
(* event schedule and advance_time, one statement group per step.         *)
(* Times are whole numbers; of an event its name and start_time are kept   *)
(* (the other fields are copied unchanged and never read by these methods).*)
(***************************************************************************)
EventNames == {"e1", "e2"}
StartTimes == 0..MaxClock
\* the interval of a recurring event: timedelta(0) and two positive ones
Intervals == {0, 1, 2}
\* advance_time's delta
Deltas == {0 - 1, 0, 1, 2}

EnvironmentEvent(name, start_time) == [name |-> name, start_time |-> start_time]

\* list.sort(key=lambda x: x.start_time): stable
SortByStartTime(evs) ==
    LET n == Len(evs)
        rank(i) == 1 + Cardinality({j \in 1..n :
                        \/ evs[j].start_time < evs[i].start_time
                        \/ evs[j].start_time = evs[i].start_time /\ j < i})
    IN  [p \in 1..n |-> evs[CHOOSE i \in 1..n : rank(i) = p]]

\* the body of schedule_event: append, then sort
Scheduled(evs, ev) == SortByStartTime(Append(evs, ev))

\* no advance_time call is under way
EnvIdle == epc \in {"idle", "returned"}

ScheduleEvent(name, start_time) ==
    /\ EnvIdle
    /\ Len(scheduled_events) < MaxEvents
    /\ scheduled_events' = Scheduled(scheduled_events, EnvironmentEvent(name, start_time))
    /\ epc' = "idle"
    /\ UNCHANGED <<current_time, recurring_events, target_time, event, last_start,
                   in_order, memVars, chatVars>>

\* add_recurring_event: append without sorting, and record the interval
\* under the event's name
AddRecurringEvent(name, start_time, interval) ==
    /\ EnvIdle
    /\ Len(scheduled_events) < MaxEvents
    /\ scheduled_events' = Append(scheduled_events, EnvironmentEvent(name, start_time))
    /\ recurring_events' =
          {e \in recurring_events : e[1] # name} \cup {<<name, interval>>}
    /\ epc' = "idle"
    /\ UNCHANGED <<current_time, target_time, event, last_start, in_order,
                   memVars, chatVars>>

\* advance_time(delta) up to the first test of the loop
AdvanceTime(delta) ==
    /\ EnvIdle
    /\ current_time + delta \in 0..MaxClock
    /\ target_time' = current_time + delta
    /\ epc' = "loop"
    /\ event' = NoEvent
    /\ last_start' = NoStart
    /\ in_order' = TRUE
    /\ UNCHANGED <<current_time, scheduled_events, recurring_events, memVars, chatVars>>

\* the while condition
EventDue ==
    /\ scheduled_events # <<>>
    /\ scheduled_events[1].start_time <= target_time

\* event = self.scheduled_events.pop(0); self._process_event(event)
PopEvent ==
    /\ epc = "loop"
    /\ EventDue
    /\ event' = scheduled_events[1]
    /\ scheduled_events' = Tail(scheduled_events)
    /\ last_start' = scheduled_events[1].start_time
    /\ in_order' = (in_order /\ last_start <= scheduled_events[1].start_time)
    /\ epc' = "process"
    /\ UNCHANGED <<current_time, recurring_events, target_time, memVars, chatVars>>

\* "if event.name in self.recurring_events": schedule the next occurrence;
\* then back to the test of the loop
RescheduleEvent ==
    /\ epc = "process"
    /\ scheduled_events' =
          IF \E e \in recurring_events : e[1] = event.name
          THEN LET interval == (CHOOSE e \in recurring_events : e[1] = event.name)[2]
               IN  Scheduled(scheduled_events,
                             EnvironmentEvent(event.name, event.start_time + interval))
          ELSE scheduled_events
    /\ epc' = "loop"
    /\ UNCHANGED <<current_time, recurring_events, target_time, event, last_start,
                   in_order, memVars, chatVars>>

\* the loop is left: self.current_time = target_time
AdvanceTimeReturns ==
    /\ epc = "loop"
    /\ ~EventDue
    /\ current_time' = target_time
    /\ epc' = "returned"
    /\ event' = NoEvent
    /\ UNCHANGED <<scheduled_events, recurring_events, target_time, last_start,
                   in_order, memVars, chatVars>>

EnvNext ==
    \/ \E name \in EventNames, t \in StartTimes : ScheduleEvent(name, t)
    \/ \E name \in EventNames, t \in StartTimes, i \in Intervals :
          AddRecurringEvent(name, t, i)
    \/ \E delta \in Deltas : AdvanceTime(delta)
    \/ PopEvent
    \/ RescheduleEvent
    \/ AdvanceTimeReturns

\* a call of advance_time runs on: the thread that entered the loop takes
\* its next step
SpecEnv ==
    /\ Init /\ [][EnvNext]_vars
    /\ WF_vars(PopEvent) /\ WF_vars(RescheduleEvent) /\ WF_vars(AdvanceTimeReturns)

TypeOK ==
    /\ pc \in {"idle", "store", "flag", "commit"}
    /\ nextId \in 1..(MaxId + 1)
    /\ now \in 0..MaxTime
    /\ pending \subseteq Ids(db)
    /\ failedStores \subseteq 1..Len(consolidated_groups)
    /\ gi \in 0..Len(consolidated_groups)

(***************************************************************************)
(* Vocabulary of the properties.                                           *)
(***************************************************************************)
\* the semantic rows consolidate_memories wrote (the caller's own store()
\* calls use the source "conversation")
ConsolidationRows(d) == {r \in Range(d) : r.source = "memory_consolidation"}
SourcesOf(r) == Range(r.metadata.consolidated_from)
FlaggedIds(d) == {r.id : r \in {x \in Range(d) : x.consolidated = 1}}
IsFlagged(d, id) == \E r \in Range(d) : r.id = id /\ r.consolidated = 1
IsUnflagged(d, id) == \E r \in Range(d) : r.id = id /\ r.consolidated = 0

\* a consolidation run has ended and nothing else has been called since
RunEnded == pc = "idle" /\ outcome.op = "consolidate_memories"
RunReturned == RunEnded /\ outcome.raised = "none"
RunFailed == RunEnded /\ outcome.raised # "none"
\* a run is under way or has just ended
RunKnown == pc # "idle" \/ RunEnded
\* the faults injected from outside: a failing provider or disk, a process death
InjectedFaults == {"ProviderError", "sqlite3.Error", "crash"}

\* the rows the run has added to the table so far
NewRows == {r \in Range(db) : r.id \notin Ids(dbBefore)}
\* the new semantic rows that list exactly the ids of group
SummariesOf(group) ==
    {r \in NewRows : /\ r.type = "semantic"
                     /\ r.metadata.consolidated_from = [m \in 1..Len(group) |-> group[m].id]}
MembersFlagged(group) == \A m \in 1..Len(group) : IsFlagged(db, group[m].id)
MembersUnflagged(group) == \A m \in 1..Len(group) : IsUnflagged(db, group[m].id)

\* every consolidation summary has all its sources flagged, and every flagged
\* row is a source of some summary
SummariesHaveFlaggedSources(d) ==
    \A r \in ConsolidationRows(d) : \A id \in SourcesOf(r) : IsFlagged(d, id)
FlaggedHaveSummary(d) ==
    \A id \in FlaggedIds(d) : \E r \in ConsolidationRows(d) : id \in SourcesOf(r)

(***************************************************************************)
(* C1..C6: atomicity and failure of a consolidation run.                   *)
(***************************************************************************)
\* C1: after a consolidation run was interrupted (by an error or a crash), the
\* committed table holds no consolidation summary with an unflagged source and
\* no flagged row that no summary lists.
C1_InterruptedRunIsAtomicPerGroup ==
    RunFailed => SummariesHaveFlaggedSources(db) /\ FlaggedHaveSummary(db)

\* C2: a run with two or more groups that meets no outside fault returns
\* normally, with one new semantic row per group and every member flagged.
C2_MultiGroupRunCompletes ==
    (RunEnded /\ Len(consolidated_groups) >= 2 /\ outcome.raised \notin InjectedFaults)
        => /\ outcome.raised = "none"
           /\ \A k \in 1..Len(consolidated_groups) :
                 /\ Cardinality(SummariesOf(consolidated_groups[k])) = 1
                 /\ MembersFlagged(consolidated_groups[k])
           /\ Cardinality(NewRows) = Len(consolidated_groups)

\* the groups whose store() and flag updates the run has carried out
ProcessedGroups ==
    IF RunReturned THEN 1..Len(consolidated_groups)
    ELSE {k \in 1..Len(consolidated_groups) : k < gi}

\* C3: after a run that met no outside fault, every group it processed has
\* exactly one new semantic row, listing exactly the group's ids, and all the
\* group's members are flagged.
C3_ProcessedGroupHasOneSummary ==
    (RunEnded /\ outcome.raised \notin InjectedFaults)
        => \A k \in ProcessedGroups :
              /\ Cardinality(SummariesOf(consolidated_groups[k])) = 1
              /\ MembersFlagged(consolidated_groups[k])

\* C4: once the run is over, no member of a group whose store() failed is
\* flagged in the committed table.
C4_FailedStoreLeavesGroupUnflagged ==
    pc = "idle" =>
        \A k \in failedStores : MembersUnflagged(consolidated_groups[k])

\* C4 witness: the store() of the second group failed after the first group's
\* flag updates had been executed, and the run is over.
C4_Witness ==
    /\ RunFailed
    /\ failedStores = {2}
    /\ outcome.at = "store"

\* C5: when a run fails at group gi, every earlier group keeps its semantic
\* row and all its flags.
C5_EarlierGroupsStayApplied ==
    (RunFailed /\ outcome.raised # "crash")
        => \A k \in 1..Len(consolidated_groups) :
              k < gi => /\ SummariesOf(consolidated_groups[k]) # {}
                        /\ MembersFlagged(consolidated_groups[k])

\* C6: a run that ends with an error leaves the table as it was before the
\* run, and no id is ever listed as a source by two consolidation summaries.
C6_FailedRunLeavesStoreUnchanged ==
    /\ (RunFailed /\ outcome.raised # "crash") => db = dbBefore
    /\ \A r1, r2 \in ConsolidationRows(db) :
          r1.id # r2.id => SourcesOf(r1) \cap SourcesOf(r2) = {}

(***************************************************************************)
(* C7..C10: what a consolidation run selects, groups and flags.            *)
(***************************************************************************)
\* the selected memories i and j are similar at the run's threshold
SimilarPair(i, j) ==
    CosineSimilarityGE(memories[i].embedding, memories[j].embedding,
                       similarity_threshold)
\* memory i is similar to no other selected memory
Isolated(i) == \A j \in 1..Len(memories) : j # i => ~SimilarPair(i, j)
AllDissimilar == \A i \in 1..Len(memories) : Isolated(i)

C8_SummaryHasAtLeastTwoSources ==
    \A r \in ConsolidationRows(db) : Len(r.metadata.consolidated_from) >= 2

\* C8 witness: the table holds a row written by consolidate_memories.
C8_Witness ==
    \E r \in ConsolidationRows(db) : r.type = "semantic"

\* C9: no step resets a committed consolidated flag, and a flagged row leaves
\* the table only when clear() empties it.
C9_FlagIsNeverReset ==
    [][\A r \in Range(db) :
          r.consolidated = 1 =>
             \/ IsFlagged(db', r.id)
             \/ pc = "idle" /\ db' = <<>>]_vars

\* C9 witness: rows flagged by an earlier run are still flagged after a later
\* run failed at its commit and rolled its own updates back.
C9_Witness ==
    /\ RunFailed
    /\ outcome.at = "commit"
    /\ FlaggedIds(dbBefore) # {}
    /\ FlaggedIds(db) = FlaggedIds(dbBefore)

\* the ids that, when the run started, were episodic, unflagged and strictly
\* older than the cutoff
EligibleAtStart ==
    {r.id : r \in {x \in Range(dbBefore) : /\ x.type = "episodic"
                                           /\ x.consolidated = 0
                                           /\ x.timestamp < cutoff_time}}

\* C10: a run flags, and lists as sources, only rows that were episodic,
\* unflagged and strictly older than the cutoff when it started; with no such
\* row it returns without any effect.
C10_OnlyEligibleRowsAreUsed ==
    RunKnown =>
        /\ pending \subseteq EligibleAtStart
        /\ \A id \in Ids(dbBefore) :
              IsFlagged(db, id) /\ IsUnflagged(dbBefore, id) => id \in EligibleAtStart
        /\ \A r \in NewRows : SourcesOf(r) \subseteq EligibleAtStart
        /\ EligibleAtStart = {} => RunReturned /\ db = dbBefore /\ pending = {}

\* C10 witness: a run has consolidated a group while the table also held a
\* semantic row older than the cutoff and an episodic row not older than it.
C10_Witness ==
    /\ RunReturned
    /\ NewRows # {}
    /\ \E r \in Range(dbBefore) : r.type = "semantic" /\ r.timestamp < cutoff_time
    /\ \E r \in Range(dbBefore) : r.type = "episodic" /\ r.timestamp >= cutoff_time

(***************************************************************************)
(* C11, C12: how the groups are formed and what the semantic row holds.    *)
(***************************************************************************)
\* the selected memories that start a group of their own: those that no
\* earlier seed is similar to
Seeds ==
    LET n == Len(memories)
        seed[j \in 1..n] == \A i \in 1..(j - 1) : ~(seed[i] /\ SimilarPair(i, j))
    IN  {j \in 1..n : seed[j]}
\* the seeds (S) before j that j is similar to
SeedsNear(S, j) == {i \in S : i < j /\ SimilarPair(i, j)}
\* the earliest of them
FirstSeed(S, j) == CHOOSE i \in SeedsNear(S, j) : \A k \in SeedsNear(S, j) : i <= k
\* the ids of a seed and of the memories that join it
MembersOfSeed(S, i) ==
    {memories[j].id : j \in {i} \cup {k \in 1..Len(memories) :
                                        SeedsNear(S, k) # {} /\ FirstSeed(S, k) = i}}
\* the ids of the k-th group the run formed
GroupIdSet(k) == {consolidated_groups[k][m].id : m \in 1..Len(consolidated_groups[k])}
\* the position of a row id in the selected memories
IndexOf(id) == CHOOSE j \in 1..Len(memories) : memories[j].id = id

\* the run has just formed its groups (they stay as they are to its end): it
\* stands before the store() of the first group, or it has returned for want
\* of a group
GroupsFormed ==
    \/ pc = "store" /\ gi = 1
    \/ RunReturned /\ consolidated_groups = <<>>

\* C11: the groups of a run are exactly the seeds' groups that have more
\* than one member: a memory joins the group of the first seed it reaches
\* the threshold with, similarity to a joined member counts for nothing, and
\* no memory is in two groups.
C11_GroupingIsSeedBased ==
    GroupsFormed =>
        LET S == Seeds
        IN  /\ {GroupIdSet(k) : k \in 1..Len(consolidated_groups)}
                  = {MembersOfSeed(S, i) :
                        i \in {s \in S : Cardinality(MembersOfSeed(S, s)) > 1}}
            /\ \A k \in 1..Len(consolidated_groups) :
                  /\ IndexOf(consolidated_groups[k][1].id) \in S
                  /\ \A m \in 2..Len(consolidated_groups[k]) :
                        SimilarPair(IndexOf(consolidated_groups[k][1].id),
                                    IndexOf(consolidated_groups[k][m].id))
                  /\ Cardinality(GroupIdSet(k)) = Len(consolidated_groups[k])
            /\ \A k, l \in 1..Len(consolidated_groups) :
                  k # l => GroupIdSet(k) \cap GroupIdSet(l) = {}

\* C11 witness: of three selected memories in list order the first is similar
\* to the second and the second to the third, but not the first to the
\* third; the first two form a group and the third is in none.
C11_Witness ==
    /\ GroupsFormed
    /\ \E i, j, k \in 1..Len(memories) :
          /\ i < j /\ j < k
          /\ SimilarPair(i, j) /\ SimilarPair(j, k) /\ ~SimilarPair(i, k)
          /\ \E g \in 1..Len(consolidated_groups) :
                {memories[i].id, memories[j].id} \subseteq GroupIdSet(g)
          /\ \A g \in 1..Len(consolidated_groups) :
                memories[k].id \notin GroupIdSet(g)

\* the words of the semantic row written for a group, position by position:
\* the stored texts are one word long, so the members' words stand at the odd
\* positions and the "\n" between them at the even ones
WordAt(r, p) == r.content[p]
\* the content of the row id as it was before the run
ContentOf(id) == Row(dbBefore, id).content

\* C12: the semantic row of a group holds the contents of the group's members,
\* each once, in selection order (the seed, then the joined memories by
\* ascending id), with "\n" between them.
C12_SummaryJoinsContentsInOrder ==
    RunKnown =>
        \A r \in NewRows :
            LET ids == r.metadata.consolidated_from
            IN  /\ \A m \in 1..(Len(ids) - 1) : ids[m] < ids[m + 1]
                /\ Len(r.content) = 2 * Len(ids) - 1
                /\ \A m \in 1..Len(ids) :
                      <<WordAt(r, 2 * m - 1)>> = ContentOf(ids[m])
                /\ \A m \in 1..(Len(ids) - 1) : <<WordAt(r, 2 * m)>> = Newline

\* C12 witness: a semantic row was written for a group of three memories
\* that do not all have the same content.
C12_Witness ==
    /\ RunKnown
    /\ \E r \in NewRows :
          /\ Len(r.metadata.consolidated_from) = 3
          /\ \E a, b \in SourcesOf(r) : ContentOf(a) # ContentOf(b)

(***************************************************************************)
(* C13..C20: retrieval, clear(), restart, store() and the frame of the     *)
(* operations.                                                             *)
(***************************************************************************)
\* the last call was retrieve_relevant and it returned
Retrieved == outcome = Returned("retrieve_relevant")
\* the rows the last call's filter selects
Matching == SelectByType(db, call.memory_type)

\* C13: the list retrieve_relevant returns is in non-increasing order of
\* similarity, and of two entries with equal similarity the one built from
\* the earlier-created row (the smaller id) comes first.
C13_ResultsAreRankedStably ==
    Retrieved =>
        \A p, p2 \in 1..Len(results) :
            p < p2 =>
               /\ ~SimGT(results[p2].similarity, results[p].similarity)
               /\ SimEQ(results[p2].similarity, results[p].similarity)
                     => results[p].id < results[p2].id

\* C13 witness: a returned list holds two entries of different content and
\* equal similarity, and an entry of greater similarity.
C13_Witness ==
    /\ Retrieved
    /\ \E p, p2, p3 \in 1..Len(results) :
          /\ p # p2
          /\ results[p].content # results[p2].content
          /\ SimEQ(results[p].similarity, results[p2].similarity)
          /\ SimGT(results[p3].similarity, results[p].similarity)

\* C14: retrieve_relevant returns min(top_k, number of matching records)
\* entries when top_k >= 0 and an empty list when top_k <= 0, negative top_k
\* included; on an empty table it returns an empty list.
C14_TopKBoundsTheResult ==
    Retrieved =>
        Len(results) =
            IF call.top_k <= 0 THEN 0
            ELSE IF call.top_k < Len(Matching) THEN call.top_k ELSE Len(Matching)

C16_ClearEmptiesTheStore ==
    outcome.op = "clear" =>
        /\ \A q \in Queries, k \in TopKs, t \in TypeFilters :
              RetrieveRelevant(db, q, k, t) = <<>>
        /\ \A tt \in TimeThresholds : SelectEligible(db, now - tt) = <<>>

\* C16 witness: clear() has returned after rows were added to the initial
\* table.
C16_Witness ==
    /\ outcome = Returned("clear")
    /\ nextId > Len(InitialTable) + 2

C18_StoreIsAllOrNothing ==
    [][outcome'.op = "store" =>
          IF outcome'.raised # "none"
          THEN db' = db
          ELSE /\ Len(db') = Len(db) + 1
               /\ SubSeq(db', 1, Len(db)) = db
               /\ db'[Len(db')].consolidated = 0]_vars

\* C18 witness: store() has raised at its commit on a table that holds rows.
C18_Witness ==
    /\ outcome.op = "store"
    /\ outcome.raised # "none"
    /\ outcome.at = "commit"
    /\ db # <<>>

\* C19: no step other than clear() removes a row or changes a row's content,
\* source, timestamp, metadata, embedding or type (or its id); only
\* consolidated may differ afterwards.
C19_OnlyTheFlagChanges ==
    [][outcome'.op # "clear" =>
          \A i \in 1..Len(db) :
              /\ i <= Len(db')
              /\ db'[i] = [db[i] EXCEPT !.consolidated = db'[i].consolidated]]_vars

\* C19 witness: a run has returned after flagging rows, and every row of the
\* table it started on is still there, equal but for the flag.
C19_Witness ==
    /\ RunReturned
    /\ FlaggedIds(db) # FlaggedIds(dbBefore)
    /\ \A i \in 1..Len(dbBefore) :
          db[i] = [dbBefore[i] EXCEPT !.consolidated = db[i].consolidated]

\* the rows whose embedding decodes
Decodable(d) == SelectSeq(d, LAMBDA r : ~Undecodable(r))

\* C20: when a row's embedding cannot be decoded, retrieve_relevant still
\* returns: the ranked list over the other rows.
C20_CorruptRowIsSkipped ==
    (outcome.op = "retrieve_relevant" /\ \E r \in Range(db) : Undecodable(r)) =>
        /\ outcome.raised = "none"
        /\ results = RetrieveRelevant(Decodable(db), call.query, call.top_k,
                                      call.memory_type)

(***************************************************************************)
(* C21: parameter validation of consolidate_memories.                      *)
(***************************************************************************)
\* C21: a run called with a non-positive similarity_threshold ends at once
\* with an error, writes no semantic row and flags nothing.
C21_NonPositiveThresholdIsRejected ==
    (RunKnown /\ similarity_threshold[1] <= 0) =>
        /\ RunFailed
        /\ db = dbBefore
        /\ pending = {}

(***************************************************************************)
(* C22..C25, C28: the chat and its in-memory memory system.                *)
(***************************************************************************)
\* the discussion_time of the episodic memories a consolidated memory was
\* built from
SourcesOfMemory(m) == Range(m.context.sources)

\* C22: as long as nothing was consolidated, the memory system holds one
\* episodic memory per message of the chat, the i-th with the content and
\* the sender of the i-th message and discussion_time = i.
C22_EveryUtteranceIsOneEpisodicMemory ==
    semantic_memories = <<>> =>
        /\ Len(episodic_memories) = Len(messages)
        /\ \A i \in 1..Len(episodic_memories) :
              /\ episodic_memories[i].content = messages[i].content
              /\ episodic_memories[i].context.sender = messages[i].sender
              /\ episodic_memories[i].context.discussion_time = i

\* C23: an add_message call that raises leaves the messages list as it was.
C23_FailedStoreBlocksTheTurn ==
    [][(ret'.op = "add_message" /\ ret'.raised # "none") => messages' = messages]_vars

\* C24: the episodic memories a consolidate_memories call folded into a
\* semantic memory are still in episodic_memories after the call, and no
\* episodic memory is a source of two semantic memories.
C24_FoldedMemoriesRemain ==
    /\ ret.op = "consolidate_memories" =>
          \A p \in 1..Len(ret.value) : \A t \in SourcesOfMemory(ret.value[p]) :
              \E m \in Range(episodic_memories) : m.context.discussion_time = t
    /\ \A p, p2 \in 1..Len(semantic_memories) :
          p # p2 => SourcesOfMemory(semantic_memories[p])
                       \cap SourcesOfMemory(semantic_memories[p2]) = {}

\* C25: search_memories(query, k) returns min(k, number of episodic plus
\* semantic memories) memories, none for k = 0, in non-increasing order of
\* similarity to the query.
C25_SearchReturnsTopK ==
    ret.op = "search_memories" =>
        /\ Len(ret.value) = IF ret.arg.k < Len(AllMemories)
                             THEN ret.arg.k ELSE Len(AllMemories)
        /\ \A p, p2 \in 1..Len(ret.value) :
              p < p2 => ~SimGT(Similarity(Encode(ret.arg.query), ret.value[p2].embedding),
                               Similarity(Encode(ret.arg.query), ret.value[p].embedding))

\* C28: the semantic memories one consolidate_memories call returns are
\* built from disjoint sets of episodic memories.
C28_GroupsOfOneCallAreDisjoint ==
    ret.op = "consolidate_memories" =>
        \A p, p2 \in 1..Len(ret.value) :
            p # p2 => SourcesOfMemory(ret.value[p]) \cap SourcesOfMemory(ret.value[p2]) = {}

(***************************************************************************)
(* C26, C27: a second run, and retrieval after a run.                      *)
(***************************************************************************)
\* the step starts a consolidation run
RunBegins == pc = "idle" /\ (pc' = "store" \/ outcome'.op = "consolidate_memories")

\* C26: when a run has returned and the next call is a second run with the
\* same similarity_threshold that selects exactly the rows the first run
\* selected and left unflagged, the second run returns at once: it writes no
\* semantic row and flags nothing.
C26_SecondRunChangesNothing ==
    [][(/\ RunReturned
        /\ RunBegins
        /\ similarity_threshold' = similarity_threshold
        /\ Ids(memories') = Ids(memories) \ FlaggedIds(db))
       => (/\ pc' = "idle"
           /\ outcome' = Returned("consolidate_memories")
           /\ db' = db
           /\ pending' = {})]_vars

\* C26 witness: a run has returned without forming a group although it
\* selected two or more memories, on a table where an earlier run has
\* consolidated a group that was as old as the selected memories.
C26_Witness ==
    /\ RunReturned
    /\ consolidated_groups = <<>>
    /\ Len(memories) >= 2
    /\ \E r \in ConsolidationRows(db) : \A id \in SourcesOf(r) :
          /\ IsFlagged(db, id)
          /\ SqlDatetime(Row(db, id).timestamp) < SqlDatetime(cutoff_time)

\* what retrieve_relevant returns on table d with no limit on the number of
\* results
RetrieveAll(d, query, memory_type) == RetrieveRelevant(d, query, Len(d), memory_type)

\* C27: when a run has ended, retrieve_relevant with memory_type 'episodic'
\* returns for every query what it returned before the run; and after a run
\* that consolidated a group an unfiltered query returns the flagged sources
\* as well as the new semantic row.
C27_RetrievalIgnoresTheFlag ==
    RunEnded =>
        \A q \in Queries :
            /\ RetrieveAll(db, q, "episodic") = RetrieveAll(dbBefore, q, "episodic")
            /\ LET all   == RetrieveAll(db, q, "None")
                   found == {all[p].id : p \in 1..Len(all)}
               IN  /\ FlaggedIds(db) \subseteq found
                   /\ {r.id : r \in NewRows} \subseteq found

\* C27 witness: a run has returned after writing a semantic row and flagging
\* its sources.
C27_Witness ==
    /\ RunReturned
    /\ NewRows # {}
    /\ FlaggedIds(db) # FlaggedIds(dbBefore)

(***************************************************************************)
(* C29, C30: advance_time.                                                 *)
(***************************************************************************)
\* C29: when advance_time has returned, no scheduled event has a start_time
\* at or before current_time, and the call processed its events in
\* non-decreasing order of start_time.
C29_DueEventsAreProcessedInOrder ==
    epc = "returned" =>
        /\ \A i \in 1..Len(scheduled_events) :
              scheduled_events[i].start_time > current_time
        /\ in_order

\* C30: every advance_time call returns, with current_time at the old
\* current_time plus delta.
C30_AdvanceTimeTerminates ==
    (epc \in {"loop", "process"}) ~> (epc = "returned" /\ current_time = target_time)

====
